---- MODULE Spec2Model ----
(***************************************************************************)
(* Model of the message_board client's input field                         *)
(* (client/src/input_field.rs): a UTF-8 byte buffer with a caret and an    *)
(* optional second caret (selection), edited through InputFieldState's     *)
(* methods.  The buffer is a sequence of bytes 0..255 and every offset is  *)
(* a byte offset, as in the source; the std String operations the source   *)
(* calls (insert, remove, pop, drain) are modelled with their panics.      *)
(* Around it: UIState's clipboard calls (client/src/tui.rs), the server's  *)
(* message log and request handlers (server/src/database.rs, main.rs) and  *)
(* the client's fetch task (client/src/state.rs).                          *)
(***************************************************************************)
EXTENDS Integers, Sequences, FiniteSets, TLC

\* Largest number of codepoints the buffer is allowed to reach.
MaxChars == 3

\* The codepoints a key press can insert: h i o a b (1 byte), U+00E9 (2
\* bytes), U+20AC (3 bytes), U+1F600 (4 bytes).
Chars == {104, 105, 111, 97, 98, 233, 8364, 128512}

\* The buffers explored are those typed from one of these sets of keys:
\* "hio", "ab" with the 4-byte codepoint, and one codepoint of each width.
Palettes == {{104, 105, 111}, {97, 98, 128512}, {97, 233, 8364, 128512}}

----------------------------------------------------------------------------
\* Option<usize>, and the third outcome a scanner call can have.
None == [kind |-> "None"]
Some(v) == [kind |-> "Some", v |-> v]
Panic(why) == [kind |-> "Panic", why |-> why]

\* 10xxxxxx
is_continuation(byte) == byte >= 128 /\ byte <= 191

\* char::encode_utf8, as called by String::insert.
encode_utf8(c) ==
    IF c < 128 THEN <<c>>
    ELSE IF c < 2048 THEN <<192 + (c \div 64), 128 + (c % 64)>>
    ELSE IF c < 65536
         THEN <<224 + (c \div 4096), 128 + ((c \div 64) % 64), 128 + (c % 64)>>
    ELSE <<240 + (c \div 262144), 128 + ((c \div 4096) % 64),
           128 + ((c \div 64) % 64), 128 + (c % 64)>>

\* str::is_char_boundary: offsets 0 and len are boundaries, an offset beyond
\* len is not, an inner offset is one iff its byte is not a continuation.
is_char_boundary(s, i) ==
    IF i = 0 THEN TRUE
    ELSE IF i >= Len(s) THEN i = Len(s)
    ELSE ~is_continuation(s[i + 1])

\* Width of the codepoint std decodes from a lead byte (chars().next()).
utf8_char_width(byte) ==
    IF byte < 128 THEN 1
    ELSE IF byte < 224 THEN 2
    ELSE IF byte < 240 THEN 3
    ELSE 4

\* Bytes s[from..to) by 0-based offsets.
Slice(s, from, to) == SubSeq(s, from + 1, to)

\* String::insert(idx, ch): panics unless idx is a char boundary.
String_insert(s, idx, c) ==
    IF ~is_char_boundary(s, idx)
    THEN [panic |-> "insert", text |-> s]
    ELSE [panic |-> "none",
          text |-> Slice(s, 0, idx) \o encode_utf8(c) \o Slice(s, idx, Len(s))]

\* A remove that takes out the single byte at idx, as Vec<u8>::remove would.
String_remove_byte(s, idx) ==
    IF idx >= Len(s)
    THEN [panic |-> "remove", text |-> s]
    ELSE [panic |-> "none", text |-> Slice(s, 0, idx) \o Slice(s, idx + 1, Len(s))]

\* String::remove(idx): panics when idx is not a boundary or is the end;
\* removes the whole codepoint that starts at idx.
String_remove(s, idx) ==
    IF ~is_char_boundary(s, idx) \/ idx >= Len(s)
    THEN [panic |-> "remove", text |-> s]
    ELSE LET w == utf8_char_width(s[idx + 1])
             e == IF idx + w > Len(s) THEN Len(s) ELSE idx + w
         IN [panic |-> "none", text |-> Slice(s, 0, idx) \o Slice(s, e, Len(s))]

\* String::pop(): removes the last codepoint, nothing on an empty string.
String_pop(s) ==
    IF Len(s) = 0 THEN s
    ELSE LET starts == {i \in 0..(Len(s) - 1) : ~is_continuation(s[i + 1])}
             last == IF starts = {} THEN 0
                     ELSE CHOOSE i \in starts : \A j \in starts : j <= i
         IN Slice(s, 0, last)

\* String::drain(start..end): panics unless both ends are in-range boundaries.
String_drain(s, start, end) ==
    IF start > end \/ end > Len(s)
       \/ ~is_char_boundary(s, start) \/ ~is_char_boundary(s, end)
    THEN [panic |-> "drain", text |-> s]
    ELSE [panic |-> "none", text |-> Slice(s, 0, start) \o Slice(s, end, Len(s))]

----------------------------------------------------------------------------
\* The codepoint boundary scanner.

\* A scanner that takes every byte for a codepoint.
len_of_codepoint_on_bytewise(s, index) ==
    IF index >= Len(s) THEN None ELSE Some(1)

\* A scanner that knows no 4-byte codepoints: 11110xxx counts as 3 bytes.
len_of_codepoint_on_no_four(s, index) ==
    IF index >= Len(s) THEN None
    ELSE LET byte == s[index + 1] IN
         IF byte <= 127 THEN Some(1)
         ELSE IF byte >= 192 /\ byte <= 223 THEN Some(2)
         ELSE IF byte >= 224 /\ byte <= 247 THEN Some(3)
         ELSE Panic("unreachable")

len_of_codepoint_on(s, index) ==
    IF index >= Len(s) THEN None
    ELSE LET byte == s[index + 1] IN
         IF byte <= 127 THEN Some(1)
         ELSE IF byte >= 192 /\ byte <= 223 THEN Some(2)
         ELSE IF byte >= 224 /\ byte <= 239 THEN Some(3)
         ELSE IF byte >= 240 /\ byte <= 247 THEN Some(4)
         ELSE Panic("unreachable")

\* A backward scanner that looks no further back than two bytes.
len_of_prev_codepoint_two_max(s, index) ==
    IF index > Len(s) \/ index = 0 THEN None
    ELSE IF s[index] < 128 THEN Some(1)
    ELSE IF index < 2 THEN Panic("unwrap")
    ELSE Some(2)

\* A backward scanner that counts the bytes at or above 128 before index.
len_of_prev_codepoint_high_bytes(s, index) ==
    IF index > Len(s) \/ index = 0 THEN None
    ELSE IF s[index] < 128 THEN Some(1)
    ELSE IF index < 2 THEN Panic("unwrap")
    ELSE IF s[index - 1] < 128 THEN Some(2)
    ELSE IF index < 3 THEN Panic("unwrap")
    ELSE IF s[index - 2] < 128 THEN Some(3)
    ELSE Some(4)

len_of_prev_codepoint(s, index) ==
    IF index > Len(s) \/ index = 0 THEN None
    ELSE IF s[index] < 128 THEN Some(1)
    ELSE IF index < 2 THEN Panic("unwrap")
    ELSE IF ~is_continuation(s[index - 1]) THEN Some(2)
    ELSE IF index < 3 THEN Panic("unwrap")
    ELSE IF ~is_continuation(s[index - 2]) THEN Some(3)
    ELSE Some(4)

\* An index_next that steps one byte.
index_next_byte(s, index) ==
    IF index >= Len(s) THEN [index |-> index, moved |-> FALSE, panic |-> "none"]
    ELSE [index |-> index + 1, moved |-> TRUE, panic |-> "none"]

\* index_next / index_prev: the moved index, whether it moved, and a panic.
index_next(s, index) ==
    LET len == len_of_codepoint_on(s, index) IN
    IF len.kind = "Panic" THEN [index |-> index, moved |-> FALSE, panic |-> len.why]
    ELSE IF len.kind = "None" THEN [index |-> index, moved |-> FALSE, panic |-> "none"]
    ELSE [index |-> index + len.v, moved |-> TRUE, panic |-> "none"]

\* An index_prev that steps one byte.
index_prev_byte(s, index) ==
    IF index = 0 THEN [index |-> index, moved |-> FALSE, panic |-> "none"]
    ELSE [index |-> index - 1, moved |-> TRUE, panic |-> "none"]

index_prev(s, index) ==
    LET len == len_of_prev_codepoint(s, index) IN
    IF len.kind = "Panic" THEN [index |-> index, moved |-> FALSE, panic |-> len.why]
    ELSE IF len.kind = "None" THEN [index |-> index, moved |-> FALSE, panic |-> "none"]
    ELSE IF len.v > index THEN [index |-> index, moved |-> FALSE, panic |-> "overflow"]
    ELSE [index |-> index - len.v, moved |-> TRUE, panic |-> "none"]

\* A range that keeps the offsets in the order given, as x..y does.
range_unordered(x, y) == [start |-> x, end |-> y]

\* range(x, y): the two offsets in order.
range(x, y) == [start |-> IF x <= y THEN x ELSE y, end |-> IF x <= y THEN y ELSE x]

----------------------------------------------------------------------------
\* InputFieldState.  A state value is [text, caret, caret2, panic]; panic is
\* "none" or names the panic that ended the call.

\* Taking the first offset for the smaller one.
usize_first(x, y) == x

usize_min(x, y) == IF x <= y THEN x ELSE y

Fail(st, why) == [st EXCEPT !.panic = why]

\* InputFieldState::default()
Default == [text |-> <<>>, caret |-> 0, caret2 |-> None, panic |-> "none"]

is_in_selection_mode(st) == st.caret2.kind = "Some"

caret_is_at_end(st) == st.caret = Len(st.text)

\* cursor(): Caret(caret) or Selection(range(caret, caret2)).
cursor(st) ==
    IF st.caret2.kind = "None" THEN [kind |-> "Caret", at |-> st.caret]
    ELSE [kind |-> "Selection", range |-> range(st.caret, st.caret2.v)]

\* A take_text that reads the buffer after resetting it.
take_text_after(st) ==
    [st |-> [text |-> <<>>, caret |-> 0, caret2 |-> None, panic |-> "none"],
     ret |-> <<>>]

\* take_text(): the state left behind and the String returned.
take_text(st) ==
    [st |-> [text |-> <<>>, caret |-> 0, caret2 |-> None, panic |-> "none"],
     ret |-> st.text]

clear(st) == take_text(st).st

\* The Some(caret2) arm shared by delete_backward and delete_forward.
drain_selection(st) ==
    LET r == range(st.caret, st.caret2.v)
        d == String_drain(st.text, r.start, r.end)
    IN IF d.panic # "none" THEN Fail(st, d.panic)
       ELSE [text |-> d.text, caret |-> usize_min(st.caret, st.caret2.v),
             caret2 |-> None, panic |-> "none"]

\* A delete_backward that always removes the last codepoint of the buffer.
delete_backward_pop(st) ==
    IF st.caret2.kind = "Some" THEN drain_selection(st)
    ELSE LET p == index_prev(st.text, st.caret)
         IN IF p.panic # "none" THEN Fail(st, p.panic)
            ELSE [st EXCEPT !.caret = p.index, !.text = String_pop(st.text)]

delete_backward(st) ==
    IF st.caret2.kind = "Some" THEN drain_selection(st)
    ELSE LET p == index_prev(st.text, st.caret)
             moved == [st EXCEPT !.caret = p.index]
         IN IF p.panic # "none" THEN Fail(st, p.panic)
            ELSE IF caret_is_at_end(moved)
                 THEN [moved EXCEPT !.text = String_pop(st.text)]
            ELSE LET rm == String_remove(st.text, moved.caret)
                 IN [moved EXCEPT !.text = rm.text, !.panic = rm.panic]

\* A delete_forward that, after deleting a selection, goes on to delete the
\* codepoint at the caret.
delete_forward_extra(st) ==
    LET s1 == IF st.caret2.kind = "Some" THEN drain_selection(st) ELSE st
    IN IF s1.panic # "none" \/ caret_is_at_end(s1) THEN s1
       ELSE LET rm == String_remove(s1.text, s1.caret)
            IN [s1 EXCEPT !.text = rm.text, !.panic = rm.panic]

\* A delete_forward without the caret_is_at_end test.
delete_forward_unguarded(st) ==
    IF st.caret2.kind = "Some" THEN drain_selection(st)
    ELSE LET rm == String_remove(st.text, st.caret)
         IN [st EXCEPT !.text = rm.text, !.panic = rm.panic]

delete_forward(st) ==
    IF st.caret2.kind = "Some" THEN drain_selection(st)
    ELSE IF ~caret_is_at_end(st)
         THEN LET rm == String_remove(st.text, st.caret)
              IN [st EXCEPT !.text = rm.text, !.panic = rm.panic]
    ELSE st

\* An insert that leaves the caret before the inserted codepoint.
insert_no_advance(st, c) ==
    LET s1 == IF is_in_selection_mode(st) THEN delete_backward(st) ELSE st
        ins == String_insert(s1.text, s1.caret, c)
    IN IF s1.panic # "none" THEN s1
       ELSE IF ins.panic # "none" THEN Fail(s1, ins.panic)
       ELSE [s1 EXCEPT !.text = ins.text]

insert(st, c) ==
    LET s1 == IF is_in_selection_mode(st) THEN delete_backward(st) ELSE st
        ins == String_insert(s1.text, s1.caret, c)
        n == index_next(ins.text, s1.caret)
    IN IF s1.panic # "none" THEN s1
       ELSE IF ins.panic # "none" THEN Fail(s1, ins.panic)
       ELSE [s1 EXCEPT !.text = ins.text, !.caret = n.index, !.panic = n.panic]

\* A collapse that drops caret2 and keeps caret.
collapse_keep_caret(st) == [st EXCEPT !.caret2 = None]

\* The `if let Some(caret2)` prologue of caret_left / caret_right.
collapse_to_caret2(st) ==
    IF st.caret2.kind = "Some"
    THEN [st EXCEPT !.caret = st.caret2.v, !.caret2 = None]
    ELSE st

\* A caret_left that collapses a selection to its smaller end.
caret_left_from_start(st) ==
    LET s1 == IF st.caret2.kind = "Some"
              THEN [st EXCEPT !.caret = usize_min(st.caret, st.caret2.v),
                              !.caret2 = None]
              ELSE st
        p == index_prev(s1.text, s1.caret)
    IN [s1 EXCEPT !.caret = p.index, !.panic = p.panic]

caret_left(st) ==
    LET s1 == collapse_to_caret2(st)
        p == index_prev(s1.text, s1.caret)
    IN [s1 EXCEPT !.caret = p.index, !.panic = p.panic]

\* A caret_right that steps with index_prev.
caret_right_backward(st) ==
    LET s1 == collapse_to_caret2(st)
        p == index_prev(s1.text, s1.caret)
    IN [s1 EXCEPT !.caret = p.index, !.panic = p.panic]

caret_right(st) ==
    LET s1 == collapse_to_caret2(st)
        n == index_next(s1.text, s1.caret)
    IN [s1 EXCEPT !.caret = n.index, !.panic = n.panic]

\* A caret_left_end that jumps to the end of the buffer.
caret_left_end_to_len(st) == [st EXCEPT !.caret2 = None, !.caret = Len(st.text)]

caret_left_end(st) == [st EXCEPT !.caret2 = None, !.caret = 0]

\* A caret_right_end that leaves caret2 in place.
caret_right_end_keep_selection(st) == [st EXCEPT !.caret = Len(st.text)]

caret_right_end(st) == [st EXCEPT !.caret2 = None, !.caret = Len(st.text)]

\* A select_left that never leaves selection mode.
select_left_no_collapse(st) ==
    IF st.caret2.kind = "Some"
    THEN LET p == index_prev(st.text, st.caret2.v)
         IN IF p.panic # "none" THEN Fail(st, p.panic)
            ELSE [st EXCEPT !.caret2 = Some(p.index)]
    ELSE LET p == index_prev(st.text, st.caret)
         IN [st EXCEPT !.caret2 = Some(p.index), !.panic = p.panic]

select_left(st) ==
    IF st.caret2.kind = "Some"
    THEN LET p == index_prev(st.text, st.caret2.v)
         IN IF p.panic # "none" THEN Fail(st, p.panic)
            ELSE IF st.caret = p.index THEN [st EXCEPT !.caret2 = None]
            ELSE [st EXCEPT !.caret2 = Some(p.index)]
    ELSE LET p == index_prev(st.text, st.caret)
         IN [st EXCEPT !.caret2 = Some(p.index), !.panic = p.panic]

\* A select_right whose None arm stores the caret without moving it.
select_right_unmoved(st) ==
    IF st.caret2.kind = "Some"
    THEN LET n == index_next(st.text, st.caret2.v)
         IN IF n.panic # "none" THEN Fail(st, n.panic)
            ELSE IF st.caret = n.index THEN [st EXCEPT !.caret2 = None]
            ELSE [st EXCEPT !.caret2 = Some(n.index)]
    ELSE [st EXCEPT !.caret2 = Some(st.caret)]

select_right(st) ==
    IF st.caret2.kind = "Some"
    THEN LET n == index_next(st.text, st.caret2.v)
         IN IF n.panic # "none" THEN Fail(st, n.panic)
            ELSE IF st.caret = n.index THEN [st EXCEPT !.caret2 = None]
            ELSE [st EXCEPT !.caret2 = Some(n.index)]
    ELSE LET n == index_next(st.text, st.caret)
         IN [st EXCEPT !.caret2 = Some(n.index), !.panic = n.panic]

----------------------------------------------------------------------------
\* The InputFieldState methods that UIState and the key handler call but
\* input_field.rs does not define: select_left_end, select_right_end, copy
\* and paste.

\* A select_left_end that keeps a zero-length selection at offset 0.
select_left_end_no_collapse(st) == [st EXCEPT !.caret2 = Some(0)]

\* select_left_end(): caret2 jumps to 0; a jump onto caret collapses to caret
\* mode.
select_left_end(st) ==
    IF st.caret = 0 THEN [st EXCEPT !.caret2 = None]
    ELSE [st EXCEPT !.caret2 = Some(0)]

\* select_right_end(): caret2 jumps to len; a jump onto caret collapses.
select_right_end(st) ==
    IF st.caret = Len(st.text) THEN [st EXCEPT !.caret2 = None]
    ELSE [st EXCEPT !.caret2 = Some(Len(st.text))]

\* A clipboard call's trace: nothing, a write or a read, and whether it failed.
NoIo == [kind |-> "none"]

\* copy(clipboard): in selection mode the selected bytes are written to the
\* clipboard; the editor is not touched, whether the write succeeds or not.
copy(st, write_ok) ==
    IF st.caret2.kind = "Some"
    THEN LET r == range(st.caret, st.caret2.v)
         IN [st |-> st,
             io |-> [kind |-> "write", ok |-> write_ok,
                     text |-> Slice(st.text, r.start, r.end)],
             result |-> IF write_ok THEN "Ok" ELSE "Err"]
    ELSE [st |-> st, io |-> NoIo, result |-> "Ok"]

\* The codepoints cs inserted one after the other.
RECURSIVE insert_all(_, _)
insert_all(st, cs) ==
    IF cs = <<>> \/ st.panic # "none" THEN st
    ELSE insert_all(insert(st, Head(cs)), Tail(cs))

\* A paste that deletes the selection before it reads the clipboard.
paste_delete_first(st, read) ==
    LET s1 == IF is_in_selection_mode(st) THEN delete_backward(st) ELSE st
    IN IF read.ok
       THEN [st |-> insert_all(s1, read.chars),
             io |-> [kind |-> "read", ok |-> TRUE, text |-> read.chars]]
       ELSE [st |-> s1, io |-> [kind |-> "read", ok |-> FALSE, text |-> <<>>]]

\* paste(clipboard): reads the clipboard; on success every codepoint read is
\* inserted in order (the first insert replaces a selection); on failure the
\* editor is not touched.
paste(st, read) ==
    IF read.ok
    THEN [st |-> insert_all(st, read.chars),
          io |-> [kind |-> "read", ok |-> TRUE, text |-> read.chars]]
    ELSE [st |-> st, io |-> [kind |-> "read", ok |-> FALSE, text |-> <<>>]]

----------------------------------------------------------------------------
\* UIState: the input field and the clipboard context, which is None when
\* ClipboardContext::new() failed.

\* A copy that cuts: the selection is deleted once it is on the clipboard.
UIState_copy_cut(st, ctx, write_ok) ==
    IF ctx.kind = "Some"
    THEN LET c == copy(st, write_ok)
         IN [st |-> IF is_in_selection_mode(st) THEN delete_backward(st) ELSE st,
             io |-> c.io]
    ELSE [st |-> st, io |-> NoIo]

\* UIState::copy: with a clipboard, the input field's copy, its error only
\* logged; without one, only a log line.
UIState_copy(st, ctx, write_ok) ==
    IF ctx.kind = "Some"
    THEN LET c == copy(st, write_ok) IN [st |-> c.st, io |-> c.io]
    ELSE [st |-> st, io |-> NoIo]

\* A paste that unwraps the clipboard context.
UIState_paste_unwrap(st, ctx, read) ==
    IF ctx.kind = "Some"
    THEN LET r == paste(st, read) IN [st |-> r.st, io |-> r.io]
    ELSE [st |-> Fail(st, "unwrap"), io |-> NoIo]

\* UIState::paste: with a clipboard, the input field's paste; without one,
\* only a log line.
UIState_paste(st, ctx, read) ==
    IF ctx.kind = "Some"
    THEN LET r == paste(st, read) IN [st |-> r.st, io |-> r.io]
    ELSE [st |-> st, io |-> NoIo]

----------------------------------------------------------------------------
\* The server's DataBase: a queue of messages [content, date], front first,
\* behind a mutex; every method below runs with the mutex held.

\* char::is_whitespace, for the characters sent here.
is_whitespace(c) == c \in {9, 10, 11, 12, 13, 32, 133, 160}

\* VecDeque::split_off(idx), then the tail put in place of the queue.
vec_deque_remove_before(vec, idx) == SubSeq(vec, idx + 1, Len(vec))

\* Iterator::position: the 0-based index of the first message after the date.
position_after(log, before_date) ==
    IF \E i \in 1..Len(log) : log[i].date > before_date
    THEN Some((CHOOSE i \in 1..Len(log) :
                   /\ log[i].date > before_date
                   /\ \A j \in 1..(i - 1) : ~(log[j].date > before_date)) - 1)
    ELSE None

\* purge_before(before_date)
purge_before(log, before_date) ==
    IF Len(log) > 0 /\ log[1].date < before_date THEN log
    ELSE LET idx == position_after(log, before_date)
         IN IF idx.kind = "Some" THEN vec_deque_remove_before(log, idx.v)
            ELSE log

\* An add_message that only turns away the empty message.
add_message_unless_empty(log, message) ==
    IF message.content # <<>> THEN Append(log, message) ELSE log

\* add_message(message): pushed at the back unless it is invisible.
add_message(log, message) ==
    LET is_invisible ==
            \/ message.content = <<>>
            \/ ~\E i \in 1..Len(message.content) :
                   ~is_whitespace(message.content[i])
    IN IF ~is_invisible THEN Append(log, message) ELSE log

\* usize::saturating_sub
saturating_sub(a, b) == IF a >= b THEN a - b ELSE 0

\* latest_messages(count): the last count messages, in stored order.
latest_messages(log, count) ==
    LET from == saturating_sub(Len(log), count)
        tail == SubSeq(log, from + 1, Len(log))
    IN SubSeq(tail, 1, usize_min(count, Len(tail)))

\* latest_message_date(): the date of the back message.
latest_message_date(log) ==
    IF Len(log) = 0 THEN None ELSE Some(log[Len(log)].date)

\* The most messages one fetch_messages response holds.
MaxFetchCount == 50

\* Iterator::filter on a sequence.
RECURSIVE filter_since(_, _)
filter_since(ms, since) ==
    IF ms = <<>> THEN <<>>
    ELSE LET rest == filter_since(Tail(ms), since)
         IN IF since.kind = "None" \/ Head(ms).date >= since.v
            THEN <<Head(ms)>> \o rest
            ELSE rest

\* A handler that trusts max_count: no cap on the response.
handle_fetch_message_uncapped(log, max_count, since) ==
    filter_since(latest_messages(log, max_count), since)

\* handle_fetch_message: the body of the response.
handle_fetch_message(log, max_count, since) ==
    LET count == usize_min(max_count, MaxFetchCount)
    IN filter_since(latest_messages(log, count), since)

\* handle_fetch_latest_update_date: the body of the response.
handle_fetch_latest_update_date(log) == latest_message_date(log)

----------------------------------------------------------------------------
\* The editor as a state machine: one action per InputFieldState method.

VARIABLES
    text,     \* InputFieldState.text, as bytes
    caret,    \* InputFieldState.caret
    caret2,   \* InputFieldState.caret2
    panic,    \* "none", or the panic that ended the last call
    op,       \* the last method called and its argument
    pre,      \* the editor state that call started from
    ret,      \* what the last call returned (take_text's String, cursor's Cursor)
    pre2,     \* for a tracked pair of calls, the call before the last one
    clipboard_context,  \* UIState.clipboard_context: None or Some
    clip_io,  \* what the last call did with the clipboard
    scan_s,      \* the &str a scanner function is called on
    scan_index,  \* the index passed to it (index_next / index_prev move it)
    scan_op,     \* the last scanner call: name, index passed, outcome
    scan_op2,    \* the scanner call before it
    messages,    \* DataBase.messages: the server's log, front first
    now,         \* the server's clock, what Utc::now() returns
    handlers,    \* the send_message requests being handled
    s_op,        \* the last call on the database
    s_pre,       \* the log before that call
    s_ret,       \* what that call returned
    s_form,      \* the form of the last fetch_messages request
    is_fetching_message,  \* AppState.is_fetching_message
    app_messages,         \* AppState.messages: the client's queue, front first
    tasks        \* the client tasks that run fetch_new_messages_if_needed

editorVars == <<text, caret, caret2, panic, op, pre, ret, pre2>>

uiVars == <<clipboard_context, clip_io>>

scanVars == <<scan_s, scan_index, scan_op, scan_op2>>

serverVars == <<messages, now, handlers, s_op, s_pre, s_ret, s_form>>

clientVars == <<is_fetching_message, app_messages, tasks>>

vars == <<editorVars, uiVars, scanVars, serverVars, clientVars>>

Cur == [text |-> text, caret |-> caret, caret2 |-> caret2, panic |-> panic]

NoHist == [kind |-> "None"]

\* Pairs of consecutive calls whose first call is remembered in pre2.
TrackedPairs ==
    {<<"insert", "delete_backward">>,
     <<"select_left", "select_right">>,
     <<"select_right", "select_left">>}

\* Number of codepoints in a buffer.
CharCount(s) == Cardinality({i \in 1..Len(s) : ~is_continuation(s[i])})

\* The buffer holds only codepoints of one palette (told by their lead bytes).
InPalette(s) ==
    \E p \in Palettes :
        \A i \in 1..Len(s) :
            is_continuation(s[i]) \/ s[i] \in {encode_utf8(c)[1] : c \in p}

\* The longest buffer, in codepoints, explored together with the clipboard.
MaxUIChars == 2

\* What the clipboard can hold when it is read: nothing, "a", and a 2-byte
\* codepoint followed by a 4-byte one.
ClipTexts == {<<>>, <<97>>, <<233, 128512>>}

EditorInit ==
    /\ text = Default.text
    /\ caret = Default.caret
    /\ caret2 = Default.caret2
    /\ panic = Default.panic
    /\ op = [name |-> "default", ch |-> 0]
    /\ pre = Default
    /\ ret = <<>>
    /\ pre2 = NoHist
    /\ clip_io = NoIo

\* No scanner call made on its own.
NoScan == [name |-> "none", index |-> 0, out |-> None, panic |-> "none"]

ScanIdle ==
    /\ scan_s = <<>>
    /\ scan_index = 0
    /\ scan_op = NoScan
    /\ scan_op2 = NoScan

\* The send_message handler tasks the server runs at a time.
Handlers == {1, 2}

NoMessage == [content |-> <<>>, date |-> 0]

NoCall == [name |-> "none", date |-> 0, message |-> NoMessage]

\* FetchMessagesForm, before any was received.
NoForm == [max_count |-> 0, since |-> None]

\* DataBase::default(), no request in flight.
ServerInit ==
    /\ messages = <<>>
    /\ now = 0
    /\ handlers = [h \in Handlers |-> [pc |-> "idle", message |-> NoMessage]]
    /\ s_op = NoCall
    /\ s_pre = <<>>
    /\ s_ret = <<>>
    /\ s_form = NoForm

\* The background update task and the task a Ctrl+R spawns.
Tasks == {"background", "ctrl_r"}

\* A task that is not inside fetch_new_messages_if_needed and has not
\* called it yet.
NoFetch ==
    [pc |-> "idle", local_latest |-> None, new_messages |-> <<>>,
     set |-> FALSE, unset |-> FALSE, result |-> "none"]

\* AppState::new()
ClientInit ==
    /\ is_fetching_message = FALSE
    /\ app_messages = <<>>
    /\ tasks = [t \in Tasks |-> NoFetch]

Init ==
    /\ EditorInit
    /\ clipboard_context = None
    /\ ScanIdle
    /\ ServerInit
    /\ ClientInit

\* A call of method `name` that leaves the editor in state r, returns v and
\* used the clipboard as io tells.
Step(name, ch, r, v, io) ==
    /\ panic = "none"
    /\ text' = r.text
    /\ caret' = r.caret
    /\ caret2' = r.caret2
    /\ panic' = r.panic
    /\ op' = [name |-> name, ch |-> ch]
    /\ pre' = Cur
    /\ ret' = v
    /\ pre2' = IF <<op.name, name>> \in TrackedPairs
               THEN [kind |-> "Some", op |-> op, pre |-> pre]
               ELSE NoHist
    /\ clip_io' = io
    /\ UNCHANGED <<clipboard_context, scanVars, serverVars, clientVars>>

\* A call that does not use the clipboard.
Call(name, ch, r, v) == Step(name, ch, r, v, NoIo)

Insert ==
    \E c \in Chars :
        /\ CharCount(insert(Cur, c).text) <= MaxChars
        /\ InPalette(insert(Cur, c).text)
        /\ Call("insert", c, insert(Cur, c), <<>>)

DeleteBackward == Call("delete_backward", 0, delete_backward(Cur), <<>>)

DeleteForward == Call("delete_forward", 0, delete_forward(Cur), <<>>)

CaretLeft == Call("caret_left", 0, caret_left(Cur), <<>>)

CaretRight == Call("caret_right", 0, caret_right(Cur), <<>>)

CaretLeftEnd == Call("caret_left_end", 0, caret_left_end(Cur), <<>>)

CaretRightEnd == Call("caret_right_end", 0, caret_right_end(Cur), <<>>)

SelectLeft == Call("select_left", 0, select_left(Cur), <<>>)

SelectRight == Call("select_right", 0, select_right(Cur), <<>>)

Clear == Call("clear", 0, clear(Cur), <<>>)

TakeText == Call("take_text", 0, take_text(Cur).st, take_text(Cur).ret)

\* cursor() takes &self: the editor is left as it is.
CursorCall == Call("cursor", 0, Cur, cursor(Cur))

Next ==
    \/ Insert
    \/ DeleteBackward
    \/ DeleteForward
    \/ CaretLeft
    \/ CaretRight
    \/ CaretLeftEnd
    \/ CaretRightEnd
    \/ SelectLeft
    \/ SelectRight
    \/ Clear
    \/ TakeText
    \/ CursorCall

Spec == Init /\ [][Next]_vars

----------------------------------------------------------------------------
\* The editor inside UIState: the calls above, the two select-to-end calls
\* of the key handler, and Ctrl+C / Ctrl+V with a clipboard that can fail.

\* UIState::new(): the clipboard context is there or could not be made.
InitUI ==
    /\ EditorInit
    /\ clipboard_context \in {None, Some("ClipboardContext")}
    /\ ScanIdle
    /\ ServerInit
    /\ ClientInit

SelectLeftEnd == Call("select_left_end", 0, select_left_end(Cur), <<>>)

SelectRightEnd == Call("select_right_end", 0, select_right_end(Cur), <<>>)

Copy ==
    \E write_ok \in BOOLEAN :
        LET r == UIState_copy(Cur, clipboard_context, write_ok)
        IN Step("copy", 0, r.st, <<>>, r.io)

Paste ==
    \E read \in {[ok |-> FALSE, chars |-> <<>>]}
                 \cup {[ok |-> TRUE, chars |-> t] : t \in ClipTexts} :
        LET r == UIState_paste(Cur, clipboard_context, read)
        IN /\ CharCount(r.st.text) <= MaxUIChars
           /\ InPalette(r.st.text)
           /\ Step("paste", 0, r.st, <<>>, r.io)

\* An editor call on a buffer that stays within MaxUIChars codepoints.
EditorCall == Next /\ CharCount(text') <= MaxUIChars

NextUI ==
    \/ EditorCall
    \/ SelectLeftEnd
    \/ SelectRightEnd
    \/ Copy
    \/ Paste

SpecUI == InitUI /\ [][NextUI]_vars

----------------------------------------------------------------------------
\* Drawing the input field: input_field_paragraph slices the text at the
\* cursor's offsets.

\* &s[from..to]: panics unless from <= to <= len and both are char
\* boundaries.
str_index(s, from, to) ==
    IF from <= to /\ to <= Len(s)
       /\ is_char_boundary(s, from) /\ is_char_boundary(s, to)
    THEN [panic |-> "none", text |-> Slice(s, from, to)]
    ELSE [panic |-> "slice", text |-> <<>>]

\* The spans of a paragraph cut at offsets a and b, or the panic of a slice.
three_spans(s, a, b) ==
    LET left == str_index(s, 0, a)
        mid == str_index(s, a, b)
        right == str_index(s, b, Len(s))
    IN IF left.panic # "none" \/ mid.panic # "none" \/ right.panic # "none"
       THEN [panic |-> "slice", spans |-> <<>>]
       ELSE [panic |-> "none", spans |-> <<left.text, mid.text, right.text>>]

\* input_field_paragraph(is_focused, input_field_state): the spans drawn
\* (the placeholder has none).
input_field_paragraph(is_focused, st) ==
    IF st.text = <<>> THEN [panic |-> "none", spans |-> <<>>]
    ELSE IF ~is_focused THEN [panic |-> "none", spans |-> <<st.text>>]
    ELSE LET c == cursor(st) IN
         IF c.kind = "Caret"
         THEN IF caret_is_at_end(st)
              THEN [panic |-> "none", spans |-> <<st.text, <<46>>>>]
              ELSE three_spans(st.text, c.at, c.at + 1)
         ELSE three_spans(st.text, c.range.start, c.range.end)

\* draw_input_field: one draw cycle, with the input field focused (ch = 1)
\* or not (ch = 0).
Draw ==
    \E is_focused \in BOOLEAN :
        LET p == input_field_paragraph(is_focused, Cur)
        IN Step("draw", IF is_focused THEN 1 ELSE 0,
                [Cur EXCEPT !.panic = p.panic], p.spans, NoIo)

NextDraw ==
    \/ EditorCall
    \/ Draw

SpecDraw == Init /\ [][NextDraw]_vars

----------------------------------------------------------------------------
\* The four scanner functions on their own: called on any &str (valid UTF-8)
\* of up to MaxScanChars codepoints with any index up to one past len + 1.

MaxScanChars == 3

\* One codepoint of each encoded width.
ScanChars == {97, 233, 8364, 128512}

\* The strings of at most n codepoints.
RECURSIVE Utf8Strings(_)
Utf8Strings(n) ==
    IF n = 0 THEN {<<>>}
    ELSE LET shorter == Utf8Strings(n - 1)
         IN shorter \cup {t \o encode_utf8(c) : t \in shorter, c \in ScanChars}

InitScan ==
    /\ EditorInit
    /\ clipboard_context = None
    /\ scan_s \in Utf8Strings(MaxScanChars)
    /\ scan_index \in 0..(Len(scan_s) + 1)
    /\ scan_op = NoScan
    /\ scan_op2 = NoScan
    /\ ServerInit
    /\ ClientInit

\* A scanner call with outcome out that leaves the index at index.
Scan(name, index, out, why) ==
    /\ scan_op.panic = "none"
    /\ scan_index' = index
    /\ scan_op' = [name |-> name, index |-> scan_index, out |-> out, panic |-> why]
    /\ scan_op2' = scan_op
    /\ UNCHANGED <<scan_s, editorVars, uiVars, serverVars, clientVars>>

\* The panic of an Option<usize> outcome.
panic_of(len) == IF len.kind = "Panic" THEN len.why ELSE "none"

LenOfCodepointOn ==
    LET len == len_of_codepoint_on(scan_s, scan_index)
    IN Scan("len_of_codepoint_on", scan_index, len, panic_of(len))

LenOfPrevCodepoint ==
    LET len == len_of_prev_codepoint(scan_s, scan_index)
    IN Scan("len_of_prev_codepoint", scan_index, len, panic_of(len))

IndexNext ==
    LET r == index_next(scan_s, scan_index)
    IN Scan("index_next", r.index, r.moved, r.panic)

IndexPrev ==
    LET r == index_prev(scan_s, scan_index)
    IN Scan("index_prev", r.index, r.moved, r.panic)

NextScan ==
    \/ LenOfCodepointOn
    \/ LenOfPrevCodepoint
    \/ IndexNext
    \/ IndexPrev

SpecScan == InitScan /\ [][NextScan]_vars

----------------------------------------------------------------------------
\* The server: requests are handled by tasks on a multi-thread runtime, so
\* the steps of different handlers interleave; a call on the database is one
\* step (it holds the mutex).

\* The clock is read up to MaxDate, the log grows up to MaxMessages.
MaxDate == 2

MaxMessages == 2

\* Message contents sent: "", " ", "a" and " b".
Contents == {<<>>, <<32>>, <<97>>, <<32, 98>>}

\* Time passes.
Tick ==
    /\ now < MaxDate
    /\ now' = now + 1
    /\ UNCHANGED <<messages, handlers, s_op, s_pre, s_ret, s_form>>
    /\ UNCHANGED <<editorVars, uiVars, scanVars, clientVars>>

\* handle_send_message in handler h, first half: the message is built and
\* stamped with Utc::now().
StampBy(h, content) ==
    /\ handlers[h].pc = "idle"
    /\ handlers' = [handlers EXCEPT ![h] =
           [pc |-> "stamped", message |-> [content |-> content, date |-> now]]]
    /\ UNCHANGED <<messages, now, s_op, s_pre, s_ret, s_form>>
    /\ UNCHANGED <<editorVars, uiVars, scanVars, clientVars>>

SendMessageStamp == \E h \in Handlers, content \in Contents : StampBy(h, content)

\* A call on the database: the log it leaves and what it returns.
DbCall(name, date, message, log, v) ==
    /\ messages' = log
    /\ s_op' = [name |-> name, date |-> date, message |-> message]
    /\ s_pre' = messages
    /\ s_ret' = v
    /\ UNCHANGED s_form
    /\ UNCHANGED <<now, editorVars, uiVars, scanVars, clientVars>>

\* handle_send_message in handler h, second half:
\* database.add_message(message).
AddBy(h) ==
    /\ handlers[h].pc = "stamped"
    /\ Len(messages) < MaxMessages
    /\ handlers' = [handlers EXCEPT ![h] = [pc |-> "idle", message |-> NoMessage]]
    /\ DbCall("add_message", 0, handlers[h].message,
              add_message(messages, handlers[h].message), <<>>)

SendMessageAdd == \E h \in Handlers : AddBy(h)

\* database.purge_before(before_date)
PurgeBefore ==
    \E before_date \in 0..MaxDate :
        /\ DbCall("purge_before", before_date, NoMessage,
                  purge_before(messages, before_date), <<>>)
        /\ UNCHANGED handlers

NextServer ==
    \/ Tick
    \/ SendMessageStamp
    \/ SendMessageAdd
    \/ PurgeBefore

SpecServer == Init /\ [][NextServer]_vars

----------------------------------------------------------------------------
\* The two read-only handlers on their own: called with any form on a log
\* of up to MaxLogLen messages, which is more than one response holds.

MaxLogLen == 52

\* How the dates run along the log: one per message, two messages per date,
\* all at one date, or newest first (as concurrent sends can leave it).
DatePatterns == {"rising", "pairs", "same", "falling"}

\* Message i of n: its content tells i, its date follows the pattern.
MessageAt(pattern, i, n) ==
    [content |-> <<97, 48 + (i \div 10), 48 + (i % 10)>>,
     date |-> CASE pattern = "rising" -> i
                [] pattern = "pairs" -> i \div 2
                [] pattern = "same" -> 1
                [] pattern = "falling" -> n - i]

\* max_count values around the cap and far above it.
MaxCounts == {0, 1, 2, 49, 50, 51, 100, 2147483647}

InitFetch ==
    /\ EditorInit
    /\ clipboard_context = None
    /\ ScanIdle
    /\ ClientInit
    /\ \E n \in 0..MaxLogLen, pattern \in DatePatterns :
           messages = [i \in 1..n |-> MessageAt(pattern, i, n)]
    /\ now = MaxLogLen
    /\ handlers = [h \in Handlers |-> [pc |-> "idle", message |-> NoMessage]]
    /\ s_op = NoCall
    /\ s_pre = <<>>
    /\ s_ret = <<>>
    /\ s_form = NoForm

\* A read-only call on the database for a request form.  The log is left as
\* it is, so one request per log shows all there is to see.
DbRead(name, form, v) ==
    /\ s_op = NoCall
    /\ s_op' = [name |-> name, date |-> 0, message |-> NoMessage]
    /\ s_pre' = messages
    /\ s_ret' = v
    /\ s_form' = form
    /\ UNCHANGED <<messages, now, handlers, editorVars, uiVars, scanVars, clientVars>>

\* handle_fetch_message for a form (max_count, since).
HandleFetchMessage ==
    \E max_count \in MaxCounts,
       since \in {None} \cup {Some(d) : d \in 0..(MaxLogLen + 1)} :
        DbRead("fetch_messages", [max_count |-> max_count, since |-> since],
               handle_fetch_message(messages, max_count, since))

\* handle_fetch_latest_update_date
HandleFetchLatestUpdateDate ==
    DbRead("fetch_latest_update_date", NoForm,
           handle_fetch_latest_update_date(messages))

NextFetch ==
    \/ HandleFetchMessage
    \/ HandleFetchLatestUpdateDate

SpecFetch == InitFetch /\ [][NextFetch]_vars

----------------------------------------------------------------------------
\* The client's fetch_new_messages_if_needed, run by the background task
\* every second and by a task spawned on Ctrl+R, on a multi-thread runtime:
\* each load, store, lock and API call is a step of its own.  The server it
\* talks to handles one send_message at a time, so its log is in date order.

\* The match on (local_latest, remote_latest).
need_update(local_latest, remote_latest) ==
    IF local_latest.kind = "Some" /\ remote_latest.kind = "Some"
    THEN remote_latest.v >= local_latest.v
    ELSE ~(local_latest.kind = "None" /\ remote_latest.kind = "None")

\* VecDeque::retain(|message| message.date != date)
RECURSIVE retain_other_dates(_, _)
retain_other_dates(ms, date) ==
    IF ms = <<>> THEN <<>>
    ELSE IF Head(ms).date # date
         THEN <<Head(ms)>> \o retain_other_dates(Tail(ms), date)
         ELSE retain_other_dates(Tail(ms), date)

\* The queue after the response is merged in.
merge_new_messages(ms, local_latest, new_messages) ==
    (IF local_latest.kind = "Some"
     THEN retain_other_dates(ms, local_latest.v)
     ELSE ms) \o new_messages

\* max_count of the client's fetch_messages request.
FetchMaxCount == 100

\* The client's queue is explored up to MaxLocal messages.
MaxLocal == 3

\* Message contents the server receives here: "a" and " b".
VisibleContents == {<<97>>, <<32, 98>>}

\* Task t goes on as record r tells; nothing else changes but what the
\* caller changes.
TaskStep(t, r) ==
    /\ tasks' = [tasks EXCEPT ![t] = r]
    /\ UNCHANGED <<editorVars, uiVars, scanVars, serverVars>>

\* The call returns: Err(..) leaves through `?`.
Return(t, result) == [tasks[t] EXCEPT !.pc = "idle", !.result = result,
                                      !.new_messages = <<>>]

\* fetch_new_messages_if_needed is called: by the background loop, which
\* ends when a call returned Err (pretty_unwrap panics), or by a new task
\* spawned on Ctrl+R.
FetchInvoke ==
    \E t \in Tasks :
        /\ tasks[t].pc = "idle"
        /\ ~(t = "background" /\ tasks[t].result = "Err")
        /\ TaskStep(t, [NoFetch EXCEPT !.pc = "check"])
        /\ UNCHANGED <<is_fetching_message, app_messages>>

\* if self.is_fetching_message() { return Ok(()) }
FetchCheck ==
    \E t \in Tasks :
        /\ tasks[t].pc = "check"
        /\ TaskStep(t, IF is_fetching_message THEN Return(t, "Ok")
                       ELSE [tasks[t] EXCEPT !.pc = "set"])
        /\ UNCHANGED <<is_fetching_message, app_messages>>

\* self.set_is_fetching_message()
FetchSet ==
    \E t \in Tasks :
        /\ tasks[t].pc = "set"
        /\ is_fetching_message' = TRUE
        /\ TaskStep(t, [tasks[t] EXCEPT !.pc = "local", !.set = TRUE])
        /\ UNCHANGED app_messages

\* let local_latest = self.lock_messages().back().map(|message| message.date)
FetchLocalLatest ==
    \E t \in Tasks :
        /\ tasks[t].pc = "local"
        /\ TaskStep(t, [tasks[t] EXCEPT !.pc = "latest",
                            !.local_latest = latest_message_date(app_messages)])
        /\ UNCHANGED <<is_fetching_message, app_messages>>

\* self.api.fetch_latest_update_date().await?, then the match: the request
\* fails, or the server answers from its log as it is now.
FetchLatestUpdateDateBy(t, ok) ==
    /\ tasks[t].pc = "latest"
    /\ TaskStep(t,
          IF ~ok THEN Return(t, "Err")
          ELSE IF need_update(tasks[t].local_latest,
                              handle_fetch_latest_update_date(messages))
               THEN [tasks[t] EXCEPT !.pc = "fetch"]
               ELSE [tasks[t] EXCEPT !.pc = "unset"])
    /\ UNCHANGED <<is_fetching_message, app_messages>>

FetchLatestUpdateDate ==
    \E t \in Tasks, ok \in BOOLEAN : FetchLatestUpdateDateBy(t, ok)

\* self.api.fetch_messages(100, local_latest).await?
FetchMessagesBy(t, ok) ==
    /\ tasks[t].pc = "fetch"
    /\ TaskStep(t,
          IF ~ok THEN Return(t, "Err")
          ELSE [tasks[t] EXCEPT !.pc = "merge",
                   !.new_messages = handle_fetch_message(
                       messages, FetchMaxCount, tasks[t].local_latest)])
    /\ UNCHANGED <<is_fetching_message, app_messages>>

FetchMessages ==
    \E t \in Tasks, ok \in BOOLEAN : FetchMessagesBy(t, ok)

\* With the queue locked: retain, then collect_into.
FetchMerge ==
    \E t \in Tasks :
        LET merged == merge_new_messages(app_messages, tasks[t].local_latest,
                                         tasks[t].new_messages)
        IN /\ tasks[t].pc = "merge"
           /\ Len(merged) <= MaxLocal
           /\ app_messages' = merged
           /\ TaskStep(t, [tasks[t] EXCEPT !.pc = "unset", !.new_messages = <<>>])
           /\ UNCHANGED is_fetching_message

\* self.unset_is_fetching_message(); Ok(())
FetchUnset ==
    \E t \in Tasks :
        /\ tasks[t].pc = "unset"
        /\ is_fetching_message' = FALSE
        /\ TaskStep(t, [Return(t, "Ok") EXCEPT !.unset = TRUE])
        /\ UNCHANGED app_messages

\* handle_send_message, from the stamp to add_message, with no other
\* request in between.
HandleSendMessage ==
    \E content \in VisibleContents :
        LET message == [content |-> content, date |-> now]
        IN /\ Len(messages) < MaxMessages
           /\ DbCall("add_message", 0, message, add_message(messages, message), <<>>)
           /\ UNCHANGED handlers

NextClient ==
    \/ FetchInvoke
    \/ FetchCheck
    \/ FetchSet
    \/ FetchLocalLatest
    \/ FetchLatestUpdateDate
    \/ FetchMessages
    \/ FetchMerge
    \/ FetchUnset
    \/ Tick
    \/ HandleSendMessage

SpecClient == Init /\ [][NextClient]_vars

\* ---------------------------------------------------------------------
\* The background update against the server's two request handlers, with
\* API calls that succeed: setup_background_update calls
\* fetch_new_messages_if_needed once a second, for ever, and nobody
\* presses Ctrl+R.
\* ---------------------------------------------------------------------

\* The loop of setup_background_update: interval.tick().await, then the call.
BackgroundInvoke ==
    /\ tasks["background"].pc = "idle"
    /\ tasks["background"].result # "Err"
    /\ TaskStep("background", [NoFetch EXCEPT !.pc = "check"])
    /\ UNCHANGED <<is_fetching_message, app_messages>>

\* self.api.fetch_latest_update_date().await? returns Ok(..)
FetchLatestUpdateDateOk == \E t \in Tasks : FetchLatestUpdateDateBy(t, TRUE)

\* self.api.fetch_messages(100, local_latest).await? returns Ok(..)
FetchMessagesOk == \E t \in Tasks : FetchMessagesBy(t, TRUE)

NextCatchUp ==
    \/ BackgroundInvoke
    \/ FetchCheck
    \/ FetchSet
    \/ FetchLocalLatest
    \/ FetchLatestUpdateDateOk
    \/ FetchMessagesOk
    \/ FetchMerge
    \/ FetchUnset
    \/ Tick
    \/ SendMessageStamp
    \/ SendMessageAdd

\* The tokio runtime keeps running the background task: the interval
\* fires again and every step of the call that can be taken is taken.
\* Nothing obliges the server to receive messages.
FairCatchUp ==
    /\ WF_vars(BackgroundInvoke)
    /\ WF_vars(FetchCheck)
    /\ WF_vars(FetchSet)
    /\ WF_vars(FetchLocalLatest)
    /\ WF_vars(FetchLatestUpdateDateOk)
    /\ WF_vars(FetchMessagesOk)
    /\ WF_vars(FetchMerge)
    /\ WF_vars(FetchUnset)

SpecCatchUp == Init /\ [][NextCatchUp]_vars /\ FairCatchUp

----------------------------------------------------------------------------
\* One client task alone, calls of fetch_new_messages_if_needed one after
\* the other, on a date-ordered server log of up to MaxLogLen messages of
\* which the client has the oldest ones (it fetched them when the server
\* had no more than one response holds).

InitRefetch ==
    /\ EditorInit
    /\ clipboard_context = None
    /\ ScanIdle
    /\ \E n \in 0..MaxLogLen, pattern \in {"rising", "pairs"} :
           /\ messages = [i \in 1..n |-> MessageAt(pattern, i, n)]
           /\ \E k \in 0..usize_min(n, MaxFetchCount) :
                  app_messages = [i \in 1..k |-> MessageAt(pattern, i, n)]
    /\ now = MaxLogLen
    /\ handlers = [h \in Handlers |-> [pc |-> "idle", message |-> NoMessage]]
    /\ s_op = NoCall
    /\ s_pre = <<>>
    /\ s_ret = <<>>
    /\ s_form = NoForm
    /\ is_fetching_message = FALSE
    /\ tasks = [t \in Tasks |-> NoFetch]

\* The call from the flag check to its return, nothing in between: the
\* queue and the flag it leaves, for the outcomes of the two API calls.
fetch_new_messages_if_needed(queue, flag, log, ok_latest, ok_messages) ==
    LET local_latest == latest_message_date(queue)
        returned(q, f, result, unset) ==
            [queue |-> q, flag |-> f,
             task |-> [NoFetch EXCEPT !.local_latest = local_latest, !.set = TRUE,
                                      !.unset = unset, !.result = result]]
    IN IF flag THEN [queue |-> queue, flag |-> flag,
                     task |-> [NoFetch EXCEPT !.result = "Ok"]]
       ELSE IF ~ok_latest THEN returned(queue, TRUE, "Err", FALSE)
       ELSE IF ~need_update(local_latest, handle_fetch_latest_update_date(log))
            THEN returned(queue, FALSE, "Ok", TRUE)
       ELSE IF ~ok_messages THEN returned(queue, TRUE, "Err", FALSE)
       ELSE returned(merge_new_messages(queue, local_latest,
                         handle_fetch_message(log, FetchMaxCount, local_latest)),
                     FALSE, "Ok", TRUE)

\* The Ctrl+R task calls fetch_new_messages_if_needed and is not interrupted.
FetchNewMessagesIfNeeded ==
    \E ok_latest \in BOOLEAN, ok_messages \in BOOLEAN :
        LET r == fetch_new_messages_if_needed(app_messages, is_fetching_message,
                                              messages, ok_latest, ok_messages)
        IN /\ app_messages' = r.queue
           /\ is_fetching_message' = r.flag
           /\ TaskStep("ctrl_r", r.task)

SpecRefetch == InitRefetch /\ [][FetchNewMessagesIfNeeded]_vars

----------------------------------------------------------------------------
\* Vocabulary of the properties, defined from the UTF-8 encoding alone.

\* i is an offset in [0, len] that does not fall inside a codepoint.
CodepointBoundary(s, i) ==
    /\ 0 <= i
    /\ i <= Len(s)
    /\ (i < Len(s) => ~is_continuation(s[i + 1]))

\* The boundary one codepoint after i (i itself at the end of the buffer).
NextBoundary(s, i) ==
    IF i >= Len(s) THEN i
    ELSE CHOOSE j \in (i + 1)..Len(s) :
             /\ CodepointBoundary(s, j)
             /\ \A k \in (i + 1)..(j - 1) : ~CodepointBoundary(s, k)

\* The boundary one codepoint before i (i itself at the start of the buffer).
PrevBoundary(s, i) ==
    IF i = 0 THEN i
    ELSE CHOOSE j \in 0..(i - 1) :
             /\ CodepointBoundary(s, j)
             /\ \A k \in (j + 1)..(i - 1) : ~CodepointBoundary(s, k)

\* Some codepoint of the buffer is wider than one byte.
HasMultiByte(s) == \E i \in 1..Len(s) : s[i] >= 128

InCaretMode(st) == st.caret2 = None

InSelectionMode(st) == st.caret2.kind = "Some"

----------------------------------------------------------------------------
\* C1: in every reachable state caret is a codepoint boundary of text within
\* [0, len(text)], and so is caret2 when it is present.
C1_BoundaryInvariant ==
    panic = "none" =>
        /\ CodepointBoundary(text, caret)
        /\ (caret2.kind = "Some" => CodepointBoundary(text, caret2.v))

\* A selection made by select_left whose two ends are distinct offsets strictly
\* inside a buffer that holds a multi-byte codepoint.
C1_Witness ==
    /\ op.name = "select_left"
    /\ HasMultiByte(text)
    /\ caret2.kind = "Some"
    /\ 0 < caret2.v /\ caret2.v < caret /\ caret < Len(text)
    /\ Len(text) > CharCount(text)

\* C2: no sequence of editor calls panics: not the unreachable!() arm, not
\* an unwrap(), not String::insert / remove / drain.
C2_NoPanic == panic = "none"

\* delete_backward, in caret mode, has just removed a multi-byte codepoint
\* from the middle of the buffer.
C2_Witness ==
    /\ op.name = "delete_backward"
    /\ InCaretMode(pre)
    /\ pre.caret > 1 /\ pre.caret < Len(pre.text)
    /\ is_continuation(pre.text[pre.caret])
    /\ Len(text) < Len(pre.text) - 1
    /\ panic = "none"

\* C3: in selection mode caret2 differs from caret; a select_left or
\* select_right that would leave them equal ends in caret mode.
C3_NoZeroLengthSelection == caret2.kind = "Some" => caret2.v # caret

\* C4: delete_backward in caret mode with caret = 0 changes neither text nor
\* caret nor mode, whatever the buffer holds.
C4_DeleteBackwardAtStartIsNoOp ==
    (op.name = "delete_backward" /\ InCaretMode(pre) /\ pre.caret = 0) =>
        /\ text = pre.text
        /\ caret = pre.caret
        /\ caret2 = None

\* C5: insert(c) over the selection [a,b) gives text[0..a] + utf8(c) +
\* text[b..], caret a + len(utf8(c)) and caret mode, whichever of caret and
\* caret2 is the smaller end.
C5_SelectionReplace ==
    (op.name = "insert" /\ InSelectionMode(pre)) =>
        LET a == IF pre.caret <= pre.caret2.v THEN pre.caret ELSE pre.caret2.v
            b == IF pre.caret <= pre.caret2.v THEN pre.caret2.v ELSE pre.caret
        IN /\ panic = "none"
           /\ text = Slice(pre.text, 0, a) \o encode_utf8(op.ch)
                        \o Slice(pre.text, b, Len(pre.text))
           /\ caret = a + Len(encode_utf8(op.ch))
           /\ caret2 = None

\* A multi-byte codepoint has replaced a non-empty selection whose caret was
\* its larger end, with text left on both sides of it.
C5_Witness ==
    /\ op.name = "insert"
    /\ op.ch > 127
    /\ InSelectionMode(pre)
    /\ 0 < pre.caret2.v /\ pre.caret2.v < pre.caret /\ pre.caret < Len(pre.text)
    /\ caret2 = None

\* C6 as stated: from the empty editor insert('h'), insert('i') give "hi" with
\* caret 2; select_left() gives Selection([1,2)); insert('o') gives "ho" with
\* caret 1 in caret mode.  Each step is taken from the state the step before
\* it produces.
C6_ScenarioAsStated ==
    /\ (op = [name |-> "insert", ch |-> 104] /\ pre = Default) =>
           /\ text = <<104>> /\ caret = 1 /\ caret2 = None
    /\ (op = [name |-> "insert", ch |-> 105]
          /\ pre = [Default EXCEPT !.text = <<104>>, !.caret = 1]) =>
           /\ text = <<104, 105>> /\ caret = 2 /\ caret2 = None
    /\ (op.name = "select_left"
          /\ pre = [Default EXCEPT !.text = <<104, 105>>, !.caret = 2]) =>
           /\ text = <<104, 105>>
           /\ cursor(Cur) = [kind |-> "Selection", range |-> [start |-> 1, end |-> 2]]
    /\ (op = [name |-> "insert", ch |-> 111]
          /\ pre = [Default EXCEPT !.text = <<104, 105>>, !.caret = 2,
                                   !.caret2 = Some(1)]) =>
           /\ text = <<104, 111>> /\ caret = 1 /\ caret2 = None

\* C6, amended: the same scenario ends with text "ho", caret 2 (the end of
\* the inserted 'o'), in caret mode.
C6_Scenario ==
    /\ (op = [name |-> "insert", ch |-> 104] /\ pre = Default) =>
           /\ text = <<104>> /\ caret = 1 /\ caret2 = None
    /\ (op = [name |-> "insert", ch |-> 105]
          /\ pre = [Default EXCEPT !.text = <<104>>, !.caret = 1]) =>
           /\ text = <<104, 105>> /\ caret = 2 /\ caret2 = None
    /\ (op.name = "select_left"
          /\ pre = [Default EXCEPT !.text = <<104, 105>>, !.caret = 2]) =>
           /\ text = <<104, 105>>
           /\ cursor(Cur) = [kind |-> "Selection", range |-> [start |-> 1, end |-> 2]]
    /\ (op = [name |-> "insert", ch |-> 111]
          /\ pre = [Default EXCEPT !.text = <<104, 105>>, !.caret = 2,
                                   !.caret2 = Some(1)]) =>
           /\ text = <<104, 111>> /\ caret = 2 /\ caret2 = None

\* The last step of the scenario: 'o' has been inserted over the selection
\* [1,2) of "hi".
C6_Witness ==
    /\ op = [name |-> "insert", ch |-> 111]
    /\ pre = [Default EXCEPT !.text = <<104, 105>>, !.caret = 2, !.caret2 = Some(1)]
    /\ text = <<104, 111>>

\* C7: from a caret-mode state, insert(c) followed by delete_backward()
\* restores text byte for byte, restores caret and stays in caret mode, for
\* codepoints of every width.
C7_InsertDeleteRoundTrip ==
    (/\ pre2.kind = "Some"
     /\ pre2.op.name = "insert"
     /\ InCaretMode(pre2.pre)
     /\ op.name = "delete_backward") =>
        /\ panic = "none"
        /\ text = pre2.pre.text
        /\ caret = pre2.pre.caret
        /\ caret2 = None

\* A 4-byte codepoint was inserted between two codepoints, one of them
\* multi-byte, and then deleted again.
C7_Witness ==
    /\ pre2.kind = "Some"
    /\ pre2.op = [name |-> "insert", ch |-> 128512]
    /\ InCaretMode(pre2.pre)
    /\ 0 < pre2.pre.caret /\ pre2.pre.caret < Len(pre2.pre.text)
    /\ HasMultiByte(pre2.pre.text)
    /\ op.name = "delete_backward"
    /\ Len(pre.text) = Len(pre2.pre.text) + 4

\* C8: in selection mode caret_right() ends in caret mode with caret at
\* caret2 advanced one codepoint (caret2 itself at the end of the buffer),
\* caret_left() with caret at caret2 moved back one codepoint (caret2 itself
\* at offset 0); text is unchanged.
C8_NavigationCollapsesToCaret2 ==
    /\ (op.name = "caret_right" /\ InSelectionMode(pre)) =>
           /\ caret2 = None
           /\ text = pre.text
           /\ caret = NextBoundary(pre.text, pre.caret2.v)
    /\ (op.name = "caret_left" /\ InSelectionMode(pre)) =>
           /\ caret2 = None
           /\ text = pre.text
           /\ caret = PrevBoundary(pre.text, pre.caret2.v)

\* caret_right() from a selection with caret = a < caret2 = b < len, over a
\* multi-byte codepoint after b: the caret lands beyond b.
C8_Witness ==
    /\ op.name = "caret_right"
    /\ InSelectionMode(pre)
    /\ pre.caret < pre.caret2.v
    /\ pre.caret2.v < Len(pre.text)
    /\ caret > pre.caret2.v + 1
    /\ caret2 = None

\* C9 as stated: with caret = a < caret2 = b, caret_left() leaves caret mode
\* with caret at a moved back one codepoint (a itself when a = 0).
C9_CaretLeftMovesFromA ==
    (op.name = "caret_left" /\ InSelectionMode(pre) /\ pre.caret < pre.caret2.v) =>
        /\ caret2 = None
        /\ caret = PrevBoundary(pre.text, pre.caret)

\* C9, amended: with caret = a < caret2 = b, caret_left() leaves caret mode
\* with caret at b moved back one codepoint, which is never left of a.
C9_CaretLeftMovesFromB ==
    (op.name = "caret_left" /\ InSelectionMode(pre) /\ pre.caret < pre.caret2.v) =>
        /\ caret2 = None
        /\ text = pre.text
        /\ caret = PrevBoundary(pre.text, pre.caret2.v)
        /\ caret >= pre.caret

\* caret_left() from a selection of two codepoints with 0 < a = caret <
\* caret2 = b: the caret lands strictly between a and b.
C9_Witness ==
    /\ op.name = "caret_left"
    /\ InSelectionMode(pre)
    /\ 0 < pre.caret
    /\ pre.caret < caret /\ caret < pre.caret2.v
    /\ caret2 = None

\* C10: on the buffer "a", U+1F600, "b" (1 + 4 + 1 bytes) in caret mode,
\* caret_right() takes the caret from 0 to 1, from 1 to 5, from 5 to 6 and
\* leaves it at 6; caret_is_at_end() holds once the caret is at 6.
C10_CaretRightScenario ==
    (/\ op.name = "caret_right"
     /\ pre.text = <<97, 240, 159, 152, 128, 98>>
     /\ InCaretMode(pre)) =>
        /\ text = pre.text
        /\ caret2 = None
        /\ panic = "none"
        /\ (pre.caret = 0 => caret = 1 /\ ~caret_is_at_end(Cur))
        /\ (pre.caret = 1 => caret = 5 /\ ~caret_is_at_end(Cur))
        /\ (pre.caret = 5 => caret = 6 /\ caret_is_at_end(Cur))
        /\ (pre.caret = 6 => caret = 6 /\ caret_is_at_end(Cur))

\* The fourth call: caret_right() at the end of that buffer.
C10_Witness ==
    /\ op.name = "caret_right"
    /\ pre.text = <<97, 240, 159, 152, 128, 98>>
    /\ InCaretMode(pre)
    /\ pre.caret = 6
    /\ caret = 6

\* C11: a step from caret mode into selection mode is always a select-extend
\* call, and insert, delete_backward, delete_forward, caret_left,
\* caret_right, caret_left_end, caret_right_end, clear and take_text always
\* end in caret mode.
C11_SelectionEnteredOnlyBySelect ==
    /\ (InCaretMode(pre) /\ InSelectionMode(Cur)) =>
           op.name \in {"select_left", "select_right",
                        "select_left_end", "select_right_end"}
    /\ op.name \in {"insert", "delete_backward", "delete_forward", "caret_left",
                    "caret_right", "caret_left_end", "caret_right_end",
                    "clear", "take_text"} =>
           caret2 = None

\* caret_right_end() has just been called on a non-empty selection and left
\* caret mode behind.
C11_Witness ==
    /\ op.name = "caret_right_end"
    /\ InSelectionMode(pre)
    /\ pre.caret2.v # pre.caret
    /\ caret2 = None

\* C12: select_left and select_right change neither text nor caret; from
\* caret mode the new caret2 is the old caret moved one codepoint in the
\* direction asked, from selection mode the new caret2, if still present, is
\* the old caret2 moved one codepoint in that direction (and it is absent only
\* when that move reaches caret).
C12_SelectMovesOnlyCaret2 ==
    /\ op.name = "select_left" =>
           LET from == IF InCaretMode(pre) THEN pre.caret ELSE pre.caret2.v
               to == PrevBoundary(pre.text, from)
           IN /\ text = pre.text
              /\ caret = pre.caret
              /\ InCaretMode(pre) => caret2 = Some(to)
              /\ InSelectionMode(pre) =>
                     IF to = pre.caret THEN caret2 = None ELSE caret2 = Some(to)
    /\ op.name = "select_right" =>
           LET from == IF InCaretMode(pre) THEN pre.caret ELSE pre.caret2.v
               to == NextBoundary(pre.text, from)
           IN /\ text = pre.text
              /\ caret = pre.caret
              /\ InCaretMode(pre) => caret2 = Some(to)
              /\ InSelectionMode(pre) =>
                     IF to = pre.caret THEN caret2 = None ELSE caret2 = Some(to)

\* select_right() from caret mode, in front of a multi-byte codepoint: caret2
\* appears beyond it.
C12_Witness ==
    /\ op.name = "select_right"
    /\ InCaretMode(pre)
    /\ pre.caret < Len(pre.text)
    /\ caret2.kind = "Some"
    /\ caret2.v > pre.caret + 1
    /\ caret = pre.caret

\* C13: in selection mode with normalized range [a,b), delete_backward() and
\* delete_forward() both give text[0..a] + text[b..], caret a and caret mode.
C13_DeleteSelection ==
    (op.name \in {"delete_backward", "delete_forward"} /\ InSelectionMode(pre)) =>
        LET a == IF pre.caret <= pre.caret2.v THEN pre.caret ELSE pre.caret2.v
            b == IF pre.caret <= pre.caret2.v THEN pre.caret2.v ELSE pre.caret
        IN /\ panic = "none"
           /\ text = Slice(pre.text, 0, a) \o Slice(pre.text, b, Len(pre.text))
           /\ caret = a
           /\ caret2 = None

\* delete_forward() has deleted a non-empty selection that had text after it.
C13_Witness ==
    /\ op.name = "delete_forward"
    /\ InSelectionMode(pre)
    /\ pre.caret < pre.caret2.v
    /\ pre.caret2.v < Len(pre.text)
    /\ Len(text) = Len(pre.text) - (pre.caret2.v - pre.caret)
    /\ Len(text) > caret

\* C14: delete_forward in caret mode removes exactly the bytes of the one
\* codepoint starting at caret when caret < len(text), changes nothing when
\* caret = len(text), and never moves the caret.
C14_DeleteForwardInCaretMode ==
    (op.name = "delete_forward" /\ InCaretMode(pre)) =>
        /\ panic = "none"
        /\ caret = pre.caret
        /\ caret2 = None
        /\ text = IF pre.caret < Len(pre.text)
                  THEN Slice(pre.text, 0, pre.caret)
                         \o Slice(pre.text, NextBoundary(pre.text, pre.caret),
                                  Len(pre.text))
                  ELSE pre.text

\* delete_forward() has removed a 4-byte codepoint that had text on both sides.
C14_Witness ==
    /\ op.name = "delete_forward"
    /\ InCaretMode(pre)
    /\ 0 < pre.caret
    /\ Len(text) = Len(pre.text) - 4
    /\ caret < Len(text)

\* C15: delete_backward in caret mode with caret > 0: with k the byte length
\* of the codepoint ending at caret, caret' = caret - k and
\* text' = text[0..caret-k] + text[caret..], also when caret = len(text).
C15_DeleteBackwardInCaretMode ==
    (op.name = "delete_backward" /\ InCaretMode(pre) /\ pre.caret > 0) =>
        LET k == pre.caret - PrevBoundary(pre.text, pre.caret)
        IN /\ panic = "none"
           /\ k \in 1..4
           /\ caret = pre.caret - k
           /\ caret2 = None
           /\ text = Slice(pre.text, 0, pre.caret - k)
                       \o Slice(pre.text, pre.caret, Len(pre.text))

\* delete_backward() at the end of the buffer has removed a 3-byte codepoint
\* that followed other text.
C15_Witness ==
    /\ op.name = "delete_backward"
    /\ InCaretMode(pre)
    /\ pre.caret = Len(pre.text)
    /\ caret = pre.caret - 3
    /\ caret > 0
    /\ Len(text) = caret

\* C16: in caret mode caret_left / caret_right move the caret by exactly one
\* whole codepoint backward / forward, do nothing at caret = 0 /
\* caret = len(text), and never change text or enter selection mode.
C16_CaretStepInCaretMode ==
    /\ (op.name = "caret_left" /\ InCaretMode(pre)) =>
           /\ panic = "none"
           /\ text = pre.text
           /\ caret2 = None
           /\ caret = PrevBoundary(pre.text, pre.caret)
           /\ (pre.caret = 0 => caret = 0)
    /\ (op.name = "caret_right" /\ InCaretMode(pre)) =>
           /\ panic = "none"
           /\ text = pre.text
           /\ caret2 = None
           /\ caret = NextBoundary(pre.text, pre.caret)
           /\ (pre.caret = Len(pre.text) => caret = pre.caret)

\* caret_right() in caret mode has stepped over a multi-byte codepoint that
\* has text before and after it.
C16_Witness ==
    /\ op.name = "caret_right"
    /\ InCaretMode(pre)
    /\ 0 < pre.caret
    /\ caret > pre.caret + 1
    /\ caret < Len(text)

\* C17: caret_left_end / caret_right_end end in caret mode with caret = 0 /
\* caret = len(text) and the text unchanged, from caret and selection mode alike.
C17_CaretToEnds ==
    /\ op.name = "caret_left_end" =>
           /\ text = pre.text
           /\ caret2 = None
           /\ caret = 0
    /\ op.name = "caret_right_end" =>
           /\ text = pre.text
           /\ caret2 = None
           /\ caret = Len(text)

\* caret_left_end() called on a non-empty selection inside a non-empty buffer
\* whose caret was not at 0.
C17_Witness ==
    /\ op.name = "caret_left_end"
    /\ InSelectionMode(pre)
    /\ pre.caret > 0
    /\ pre.caret2.v # pre.caret
    /\ caret = 0
    /\ Len(text) > 0

\* C18: take_text() returns the buffer as it was before the call and leaves
\* the editor as constructed (empty text, caret 0, caret mode); clear()
\* leaves it in that same state; from selection mode as well.
C18_TakeTextAndClear ==
    /\ op.name = "take_text" =>
           /\ ret = pre.text
           /\ text = <<>> /\ caret = 0 /\ caret2 = None /\ panic = "none"
    /\ op.name = "clear" =>
           /\ text = <<>> /\ caret = 0 /\ caret2 = None /\ panic = "none"

\* take_text() called in selection mode on a buffer with a multi-byte
\* codepoint, which it returned.
C18_Witness ==
    /\ op.name = "take_text"
    /\ InSelectionMode(pre)
    /\ HasMultiByte(pre.text)
    /\ pre.caret > 0
    /\ ret = pre.text
    /\ text = <<>>

\* C19: cursor() returns Caret(caret) when caret2 is absent and
\* Selection([min(caret,caret2), max(caret,caret2))) when it is present, with
\* start <= end <= len(text), and the call changes no state.
C19_Cursor ==
    op.name = "cursor" =>
        /\ text = pre.text /\ caret = pre.caret /\ caret2 = pre.caret2
        /\ panic = "none"
        /\ caret2 = None => ret = [kind |-> "Caret", at |-> caret]
        /\ caret2.kind = "Some" =>
               /\ ret.kind = "Selection"
               /\ ret.range.start \in {caret, caret2.v}
               /\ ret.range.end \in {caret, caret2.v}
               /\ ret.range.start <= caret /\ ret.range.start <= caret2.v
               /\ ret.range.end >= caret /\ ret.range.end >= caret2.v
               /\ ret.range.start <= ret.range.end
               /\ ret.range.end <= Len(text)

\* cursor() called on a selection whose caret is its larger end.
C19_Witness ==
    /\ op.name = "cursor"
    /\ caret2.kind = "Some"
    /\ caret2.v < caret
    /\ ret.kind = "Selection"
    /\ ret.range.start < ret.range.end

\* The buffer is a concatenation of whole codepoints: it does not start with
\* a continuation byte, every lead byte is of a class 0xxxxxxx, 110xxxxx,
\* 1110xxxx or 11110xxx, and a lead byte of width w is followed by exactly
\* w - 1 continuation bytes.
ValidUtf8(s) ==
    /\ (Len(s) > 0 => ~is_continuation(s[1]))
    /\ \A i \in 1..Len(s) :
           is_continuation(s[i])
           \/ LET w == IF s[i] <= 127 THEN 1
                       ELSE IF s[i] <= 223 THEN 2
                       ELSE IF s[i] <= 239 THEN 3
                       ELSE 4
              IN /\ s[i] <= 247
                 /\ i + w - 1 <= Len(s)
                 /\ \A j \in (i + 1)..(i + w - 1) : is_continuation(s[j])
                 /\ (i + w <= Len(s) => ~is_continuation(s[i + w]))

\* C20: in every reachable state the buffer is valid UTF-8; no insert or
\* delete leaves a truncated multi-byte sequence.
C20_ValidUtf8 == ValidUtf8(text)

\* A delete has removed a multi-byte codepoint from a buffer that still holds
\* another one.
C20_Witness ==
    /\ op.name \in {"delete_backward", "delete_forward"}
    /\ InCaretMode(pre)
    /\ Len(text) < Len(pre.text) - 1
    /\ HasMultiByte(text)
    /\ Len(text) > CharCount(text)


----------------------------------------------------------------------------
\* Clipboard calls and the select-to-end calls (checked under SpecUI).

\* The editor fields are what they were before the last call.
EditorUnchanged == text = pre.text /\ caret = pre.caret /\ caret2 = pre.caret2

\* C21: copy never mutates the editor: after UIState::copy, whether the
\* clipboard write succeeded, failed or was not attempted, text, caret and
\* caret2 are what they were before the call.
C21_CopyIsReadOnly ==
    op.name = "copy" => EditorUnchanged /\ panic = "none"

\* C21 happens: a copy of a non-empty selection whose clipboard write failed.
C21_Witness ==
    /\ op.name = "copy"
    /\ clip_io.kind = "write"
    /\ ~clip_io.ok
    /\ clip_io.text # <<>>

\* C22: a failed clipboard read leaves the editor untouched: after a paste
\* whose read failed, text, caret and caret2 are what they were before, in
\* particular a selection is still there and still selected.
C22_FailedPasteIsNoOp ==
    (op.name = "paste" /\ clip_io.kind = "read" /\ ~clip_io.ok)
        => EditorUnchanged /\ panic = "none"

\* C22 happens: a paste over a non-empty selection whose read failed.
C22_Witness ==
    /\ op.name = "paste"
    /\ clip_io.kind = "read"
    /\ ~clip_io.ok
    /\ pre.caret2.kind = "Some"
    /\ pre.caret2.v # pre.caret

\* C23: without a clipboard context, every step keeps it None, and every
\* copy or paste step leaves text, caret and caret2 alone, touches no
\* clipboard and returns without a panic.
C23_NoClipboardNoOp ==
    [][clipboard_context = None =>
        /\ clipboard_context' = None
        /\ op'.name \in {"copy", "paste"} =>
            /\ text' = text
            /\ caret' = caret
            /\ caret2' = caret2
            /\ panic' = "none"
            /\ clip_io' = NoIo]_vars

\* C23 happens: a paste without a clipboard context over a selection.
C23_Witness ==
    /\ clipboard_context = None
    /\ op.name = "paste"
    /\ pre.caret2.kind = "Some"
    /\ pre.text # <<>>

\* C24 as stated: after select_left_end / select_right_end, caret and text
\* are unchanged and caret2 is 0 / len(text), from every reachable state.
C24_SelectToEndsAsStated ==
    /\ op.name = "select_left_end"
        => text = pre.text /\ caret = pre.caret /\ caret2 = Some(0)
    /\ op.name = "select_right_end"
        => text = pre.text /\ caret = pre.caret /\ caret2 = Some(Len(text))

\* C24: after select_left_end / select_right_end, caret and text are
\* unchanged; caret2 is 0 / len(text) when the caret is somewhere else, and
\* the editor is in caret mode when the caret is already at 0 / len(text).
C24_SelectToEnds ==
    /\ op.name = "select_left_end"
        => /\ text = pre.text
           /\ caret = pre.caret
           /\ caret2 = IF caret = 0 THEN None ELSE Some(0)
    /\ op.name = "select_right_end"
        => /\ text = pre.text
           /\ caret = pre.caret
           /\ caret2 = IF caret = Len(text) THEN None ELSE Some(Len(text))

\* C24 happens: select_left_end from caret mode created a selection down to
\* offset 0 over a multi-byte codepoint.
C24_Witness ==
    /\ op.name = "select_left_end"
    /\ pre.caret2 = None
    /\ caret2 = Some(0)
    /\ HasMultiByte(text)

----------------------------------------------------------------------------
\* The scanner functions by themselves (checked under SpecScan).

\* The length the bit pattern of a lead byte announces; 0 for 10xxxxxx and
\* 11111xxx.
LeadClass(byte) ==
    IF byte \div 128 = 0 THEN 1
    ELSE IF byte \div 32 = 6 THEN 2
    ELSE IF byte \div 16 = 14 THEN 3
    ELSE IF byte \div 8 = 30 THEN 4
    ELSE 0

\* What the forward scanner is to do at index i of s when the byte there is
\* a lead byte (or i is out of bounds).
ForwardScanAt(i) ==
    /\ scan_op.name = "len_of_codepoint_on"
        => /\ (scan_op.out = None) <=> (i >= Len(scan_s))
           /\ i < Len(scan_s)
                => /\ LeadClass(scan_s[i + 1]) \in 1..4
                   /\ scan_op.out = Some(LeadClass(scan_s[i + 1]))
    /\ scan_op.name = "index_next"
        => /\ scan_op.panic = "none"
           /\ i < Len(scan_s)
                => /\ scan_index = i + LeadClass(scan_s[i + 1])
                   /\ LeadClass(scan_s[i + 1]) \in 1..4
                   /\ scan_op.out = TRUE
           /\ i >= Len(scan_s) => scan_index = i /\ scan_op.out = FALSE

\* C25 as stated: for every buffer and every index, len_of_codepoint_on is
\* None iff index >= len and otherwise 1..4 by the class of the byte at index;
\* index_next advances by that length and returns true, or stays and returns
\* false at the end.
C25_ForwardScannerAsStated ==
    scan_op.name \in {"len_of_codepoint_on", "index_next"}
        => ForwardScanAt(scan_op.index)

\* C25: for every valid UTF-8 buffer and every index that is out of bounds or
\* on a codepoint boundary, len_of_codepoint_on is None iff index >= len and
\* otherwise 1..4 by the class of the lead byte at index, and index_next
\* advances by that length and returns true, or stays and returns false when
\* index >= len; at an index inside a codepoint both calls panic.
C25_ForwardScanner ==
    scan_op.name \in {"len_of_codepoint_on", "index_next"}
        => IF scan_op.index < Len(scan_s)
              /\ ~CodepointBoundary(scan_s, scan_op.index)
           THEN scan_op.panic = "unreachable" /\ scan_index = scan_op.index
           ELSE ForwardScanAt(scan_op.index)

\* C25 happens: index_next stepped over a 4-byte codepoint that does not
\* start the buffer.
C25_Witness ==
    /\ scan_op.name = "index_next"
    /\ scan_op.index > 0
    /\ scan_index = scan_op.index + 4
    /\ scan_op.out = TRUE

\* C26: on a valid UTF-8 buffer and a codepoint-boundary index i:
\* len_of_prev_codepoint is None when i = 0 and otherwise the length k of the
\* codepoint ending at i (i - k is the boundary before i and the lead byte
\* there announces k); index_prev moves to that boundary; and index_prev then
\* index_next, or index_next then index_prev, is back at i when the first
\* step moved.
C26_BackwardScanner ==
    /\ (scan_op.name = "len_of_prev_codepoint"
            /\ CodepointBoundary(scan_s, scan_op.index))
        => IF scan_op.index = 0 THEN scan_op.out = None
           ELSE /\ scan_op.out.kind = "Some"
                /\ scan_op.index - scan_op.out.v = PrevBoundary(scan_s, scan_op.index)
                /\ LeadClass(scan_s[scan_op.index - scan_op.out.v + 1]) = scan_op.out.v
                /\ len_of_codepoint_on(scan_s, scan_op.index - scan_op.out.v)
                       = scan_op.out
    /\ (scan_op.name = "index_prev" /\ CodepointBoundary(scan_s, scan_op.index))
        => /\ scan_op.panic = "none"
           /\ scan_index = PrevBoundary(scan_s, scan_op.index)
           /\ scan_op.out = (scan_op.index > 0)
    /\ (/\ CodepointBoundary(scan_s, scan_op2.index)
        /\ \/ scan_op2.name = "index_prev" /\ scan_op.name = "index_next"
           \/ scan_op2.name = "index_next" /\ scan_op.name = "index_prev"
        /\ scan_op2.out = TRUE)
        => scan_index = scan_op2.index /\ scan_op.out = TRUE

\* C26 happens: index_prev stepped back over a 3-byte codepoint from inside
\* the buffer and index_next returned to where it started.
C26_Witness ==
    /\ scan_op2.name = "index_prev"
    /\ scan_op.name = "index_next"
    /\ scan_op2.index < Len(scan_s)
    /\ scan_op.index = scan_op2.index - 3
    /\ scan_index = scan_op2.index

----------------------------------------------------------------------------
\* The server's log (checked under SpecServer).

\* Dates never decrease from the front of the log to its back.
OrderedByDate(log) ==
    \A i \in 1..Len(log) : \A j \in i..Len(log) : log[i].date <= log[j].date

\* C27: after purge_before(d) on a date-ordered log, no stored message has a
\* date before d.
C27_PurgeBeforeDeletesOlder ==
    (s_op.name = "purge_before" /\ OrderedByDate(s_pre))
        => \A i \in 1..Len(messages) : messages[i].date >= s_op.date

\* C28: the stored message queue is ordered by date, oldest at the front, in
\* every state send_message handlers running side by side can reach.
C28_LogOrderedByDate == OrderedByDate(messages)

----------------------------------------------------------------------------
\* The client's fetch guard (checked under SpecClient).

\* The tasks past the flag check and not yet returned.
InFetchBody ==
    {t \in Tasks : tasks[t].pc \in {"set", "local", "latest", "fetch", "merge", "unset"}}

\* C29: at most one invocation of fetch_new_messages_if_needed is past the
\* flag check and inside the fetch-and-merge body at any time.
C29_FetchMutualExclusion == Cardinality(InFetchBody) <= 1

\* C30: every invocation that set is_fetching_message and has returned, with
\* Ok or with Err, has reset it before returning.
C30_GuardReleased ==
    \A t \in Tasks :
        (tasks[t].pc = "idle" /\ tasks[t].result # "none" /\ tasks[t].set)
            => tasks[t].unset

----------------------------------------------------------------------------
\* Selecting there and back (checked under Spec).

\* The last two calls were first and then second, and the first was made in
\* caret mode.
SelectPair(first, second) ==
    /\ pre2.kind = "Some"
    /\ pre2.op.name = first
    /\ op.name = second
    /\ pre2.pre.caret2 = None

\* C39: from caret mode with 0 < caret, select_left() then select_right()
\* ends in the very state it started from (same text, same caret, caret
\* mode, no panic); with caret < len(text), so does select_right() then
\* select_left().
C39_SelectRoundTrip ==
    /\ (SelectPair("select_left", "select_right") /\ pre2.pre.caret > 0)
        => Cur = pre2.pre
    /\ (SelectPair("select_right", "select_left")
            /\ pre2.pre.caret < Len(pre2.pre.text))
        => Cur = pre2.pre

\* C39 happens: select_right() over a multi-byte codepoint in the middle of
\* the buffer, then select_left() back to caret mode.
C39_Witness ==
    /\ SelectPair("select_right", "select_left")
    /\ pre2.pre.caret > 0
    /\ pre.caret2.kind = "Some"
    /\ pre.caret2.v > pre.caret + 1
    /\ caret2 = None

----------------------------------------------------------------------------
\* Drawing the input field (checked under SpecDraw).

\* The offsets input_field_paragraph slices a non-empty text at when the
\* input field is focused.
SliceOffsets(st) ==
    IF st.caret2.kind = "Some"
    THEN {range(st.caret, st.caret2.v).start, range(st.caret, st.caret2.v).end}
    ELSE IF st.caret = Len(st.text) THEN {}
    ELSE {st.caret, st.caret + 1}

\* C38: a draw of a non-empty text with the input field focused slices only
\* at codepoint boundaries of the text, does not panic, and leaves text,
\* caret and caret2 as they were.
C38_RenderingSliceSafe ==
    (op.name = "draw" /\ op.ch = 1 /\ pre.text # <<>>)
        => /\ \A i \in SliceOffsets(pre) : CodepointBoundary(pre.text, i)
           /\ panic = "none"
           /\ EditorUnchanged

----------------------------------------------------------------------------
\* The fetch_messages response (checked under SpecFetch).

\* The indexes of the stored messages a request is answered with: among the
\* last min(max_count, 50), those dated since or later.
Answered(log, form) ==
    LET cap == IF form.max_count < 50 THEN form.max_count ELSE 50
    IN {i \in 1..Len(log) :
            /\ i > Len(log) - cap
            /\ form.since.kind = "Some" => log[i].date >= form.since.v}

\* The j-th smallest index of K.
Nth(K, j) == CHOOSE i \in K : Cardinality({x \in K : x <= i}) = j

\* C35: the response to (max_count, since) is exactly the messages among
\* the last min(max_count, 50) stored ones with date >= since (all of them
\* without since), in stored order; so it holds at most min(max_count, 50)
\* messages and none dated before since.
C35_FetchMessagesResponse ==
    s_op.name = "fetch_messages"
        => LET K == Answered(s_pre, s_form) IN
           /\ Len(s_ret) = Cardinality(K)
           /\ \A j \in 1..Len(s_ret) : s_ret[j] = s_pre[Nth(K, j)]
           /\ Len(s_ret) <= 50
           /\ Len(s_ret) <= s_form.max_count
           /\ s_form.since.kind = "Some"
                => \A j \in 1..Len(s_ret) : s_ret[j].date >= s_form.since.v
           /\ messages = s_pre

\* C35 happens: a request for 100 messages since a date, on a log of more
\* than 50, answered with fewer than 50 because some of the last 50 are
\* older than since.
C35_Witness ==
    /\ s_op.name = "fetch_messages"
    /\ s_form.max_count = 100
    /\ s_form.since.kind = "Some"
    /\ Len(s_pre) > 50
    /\ Len(s_ret) > 1
    /\ Len(s_ret) < 50

----------------------------------------------------------------------------
\* What the server stores and keeps (checked under SpecServer).

\* A content without a character that is not whitespace; the empty one too.
Invisible(content) == \A i \in 1..Len(content) : is_whitespace(content[i])

\* C36: add_message leaves the log as it is when the content is empty or all
\* whitespace and otherwise appends exactly that message at the back; and
\* every stored message has a character that is not whitespace.
C36_InvisibleNeverStored ==
    /\ s_op.name = "add_message"
        => IF Invisible(s_op.message.content)
           THEN messages = s_pre
           ELSE messages = s_pre \o <<s_op.message>>
    /\ \A i \in 1..Len(messages) : ~Invisible(messages[i].content)

\* C36 happens: a message of one space was sent to a server that already
\* stores a message, and the log is as before.
C36_Witness ==
    /\ s_op.name = "add_message"
    /\ s_op.message.content = <<32>>
    /\ s_pre # <<>>
    /\ messages = s_pre

\* The messages of a log dated d or later, in their order.
NotBefore(log, d) == SelectSeq(log, LAMBDA m : m.date >= d)

\* C37: purge_before(d) keeps every stored message with date >= d, those
\* dated exactly d too, in the same relative order.
C37_PurgeBeforeKeepsLater ==
    s_op.name = "purge_before"
        => NotBefore(messages, s_op.date) = NotBefore(s_pre, s_op.date)

----------------------------------------------------------------------------
\* The client's local queue (C31, C32 checked under SpecClient).

\* How often message m is in queue q.
Count(q, m) == Cardinality({i \in 1..Len(q) : q[i] = m})

\* C31: no server message is more often in the client's queue than the
\* server stores it; a message stored once is in the queue at most once.
C31_NoRepeatedMessages ==
    \A i \in 1..Len(app_messages) :
        Count(app_messages, app_messages[i]) <= Count(messages, app_messages[i])

\* C32: the client's queue is in chronological order, oldest at the front,
\* whenever the server's log is in date order.
C32_LocalQueueChronological ==
    OrderedByDate(messages) => OrderedByDate(app_messages)

\* C33: no step takes a message out of the client's queue: every message
\* in the queue before the step is in the queue after it.
C33_FetchLosesNothing ==
    [][\A i \in 1..Len(app_messages) :
          \E j \in 1..Len(app_messages') : app_messages'[j] = app_messages[i]]_vars


\* The client shows the server's latest message: the last message of the
\* local queue is the last message of the server's log.
CaughtUp ==
    /\ app_messages # <<>>
    /\ app_messages[Len(app_messages)] = messages[Len(messages)]

\* C34: if the server's log is non-empty and stops changing, and the fetch
\* keeps being invoked with API calls that succeed, then eventually the
\* last message of the local queue is the server's latest message, and it
\* stays so.  (The log holds at most MaxMessages messages and only grows,
\* so it stops changing in every behaviour.)
C34_ClientCatchesUp == <>[](messages # <<>> => CaughtUp)

====
